---- MODULE Spec2Model ----
(***************************************************************************)
(* A model of dayrun.py: the `start` command (foreground countdown or      *)
(* detached hand-off), the hidden `_monitor` command run by the detached   *)
(* process, and the `stop` and `status` commands, communicating through    *)
(* the files current_session.pid, sessions.json and                        *)
(* pending_session_<start_ts>.json.                                        *)
(*                                                                         *)
(* Every process is a sequence of atomic steps, one per call that touches  *)
(* a file, a process or the desktop; local computation is folded into the  *)
(* step that follows it.  File-system calls succeed (the `except` arms     *)
(* that swallow I/O errors are not taken); the failure that is modelled is *)
(* the failure of subprocess.Popen to launch the monitor.                  *)
(***************************************************************************)
EXTENDS Integers, Sequences, FiniteSets, TLC

\* ---- bounds of the model ------------------------------------------------
MaxTime == 1          \* largest value of int(time.time())
MaxDuration == 1      \* largest session duration, in seconds

\* the sessions (`start` invocations) the model has room for
Sessions == {1, 2}
\* parse_duration can return a negative number ("-1"), zero or a positive one
Durations == {0 - 1} \cup (0..MaxDuration)

\* A monitor's pid; read_pid treats 0 like a missing file (`if not pid`).
Pid(s) == s
NoPid == 0

\* ---- helpers ---------------------------------------------------------------
EmptyEntry == [k \in {} |-> 0]
SetKey(r, k, v) == [f \in DOMAIN r \cup {k} |-> IF f = k THEN v ELSE r[f]]
HasKey(r, k) == k \in DOMAIN r
\* dict.get(k) used as a condition: a missing key is falsy
GetFlag(r, k) == IF k \in DOMAIN r THEN r[k] ELSE FALSE

VARIABLES
  platform,   \* platform.system()
  now,        \* int(time.time())
  dndState,   \* what the last set_dnd call asked the desktop for
  marker,     \* content of current_session.pid, NoPid when the file is absent
  history,    \* content of sessions.json, newest first
  handoff,    \* the pending_session_<ts>.json files: a set of <<ts, json text>>
  opt,        \* per session: the resolved options of `start`
  cliPc,      \* per session: position of the `start` process
  entry,      \* per session: session_entry of the `start` process
  remaining,  \* per session: `remaining` of the countdown loop
  cliBuf,     \* per session: the list load_sessions returned to `start`
  spawn,      \* per session: outcome of the detach attempt
  monPc,      \* per session: position of the `_monitor` process
  monEntry,   \* per session: `entry` of the `_monitor` process
  monBuf,     \* per session: the list load_sessions returned to `_monitor`
  effects,    \* per session: the side effects so far, <<actor, effect>>; the
              \* monitor's finally block acts as "cleanup"
  sleeps,     \* per session: number of time.sleep calls of the countdown
  slept,      \* per session: sum of the intervals the countdown has slept
  stopIssued, \* a `stop` has been invoked
  report,     \* what the last `stop`, `status` or refused `start` echoed
  durInput,   \* the string given to parse_duration, one character per element
  parsed,     \* what parse_duration made of durInput
  written     \* the entries given to save_session_entry, in call order

vars == <<platform, now, dndState, marker, history, handoff, opt, cliPc, entry,
          remaining, cliBuf, spawn, monPc, monEntry, monBuf, effects,
          sleeps, slept, stopIssued, report, durInput, parsed, written>>

sessVars == <<opt, cliPc, entry, remaining, cliBuf, spawn, sleeps, slept>>
monVars == <<monPc, monEntry, monBuf>>
cmdVars == <<stopIssued, report>>
\* used by the specifications of parse_duration and of the history file only
auxVars == <<durInput, parsed, written>>

Options == [detach : BOOLEAN, notify : BOOLEAN, log : BOOLEAN, dnd : BOOLEAN,
            apps : BOOLEAN, dur : Durations]

NotParsed == [state |-> "pending", sec |-> 0]

\* nothing has run yet: no files, no processes
Fresh ==
  /\ now = 0
  /\ dndState = FALSE
  /\ marker = NoPid
  /\ history = <<>>
  /\ handoff = {}
  /\ opt = [s \in Sessions |-> [detach |-> FALSE, notify |-> FALSE, log |-> FALSE,
                                dnd |-> FALSE, apps |-> FALSE, dur |-> 0]]
  /\ cliPc = [s \in Sessions |-> "idle"]
  /\ entry = [s \in Sessions |-> EmptyEntry]
  /\ remaining = [s \in Sessions |-> 0]
  /\ cliBuf = [s \in Sessions |-> <<>>]
  /\ spawn = [s \in Sessions |-> "none"]
  /\ monPc = [s \in Sessions |-> "none"]
  /\ monEntry = [s \in Sessions |-> EmptyEntry]
  /\ monBuf = [s \in Sessions |-> <<>>]
  /\ effects = [s \in Sessions |-> <<>>]
  /\ sleeps = [s \in Sessions |-> 0]
  /\ slept = [s \in Sessions |-> 0]
  /\ stopIssued = FALSE
  /\ report = "none yet"

Init ==
  /\ platform \in {"Linux", "Windows"}
  /\ Fresh
  /\ durInput = <<>>
  /\ parsed = NotParsed
  /\ written = <<>>

\* ---- the clock -----------------------------------------------------------
Tick ==
  /\ now < MaxTime
  /\ now' = now + 1
  /\ UNCHANGED <<auxVars, platform, dndState, marker, history, handoff, sessVars, monVars,
                 cmdVars, effects>>

\* ---- processes -------------------------------------------------------------
CliReturned(s) ==
  cliPc[s] \in {"idle", "rejected", "detached", "completed", "interrupted"}
MonitorAlive(s) == monPc[s] \notin {"none", "exited", "killed"}
\* os.kill(pid, sig) succeeds exactly when a process with that pid exists
ProcessExists(p) == p \in Sessions /\ MonitorAlive(p)

\* the effects a list of conditional calls leaves, in call order
Emit(actor, calls) ==
  LET sel == SelectSeq(calls, LAMBDA c : c[1])
  IN  [i \in 1..Len(sel) |-> <<actor, sel[i][2]>>]

\* ---- json --------------------------------------------------------------------
\* The keys of a session entry by the type of their value (lines 501-509, 532,
\* 574); Python's None is written "None" in the nullable ones.
NumberKeys == {"duration_seconds", "start_ts", "end_ts", "detached_pid"}
BoolKeys == {"dnd"}
ArrayKeys == {"apps", "cmds"}

\* json.dumps of one value: a JSON number, literal, array or string
JsonDumpValue(k, v) ==
  IF k \in NumberKeys THEN <<"number", v>>
  ELSE IF k \in BoolKeys THEN <<"literal", IF v THEN "true" ELSE "false">>
  ELSE IF k \in ArrayKeys THEN <<"array", v>>
  ELSE IF v = "None" THEN <<"literal", "null">>
  ELSE <<"string", v>>

\* json.loads of one value
JsonLoadValue(tok) ==
  IF tok[1] = "literal"
    THEN (IF tok[2] = "true" THEN TRUE ELSE IF tok[2] = "false" THEN FALSE ELSE "None")
    ELSE tok[2]

\* the JSON value kinds json.loads accepts in these files
JsonKinds == {"number", "literal", "array", "string"}
\* a file whose text is not JSON: json.load raises on it
NotJson == [k \in {"start_ts"} |-> <<"garbage", 0>>]
Parsable(text) == \A k \in DOMAIN text : text[k][1] \in JsonKinds

\* json.dumps and json.loads of a dict: only the keys that are present
JsonDumpObject(e) == [k \in DOMAIN e |-> JsonDumpValue(k, e[k])]
JsonLoadObject(text) == [k \in DOMAIN text |-> JsonLoadValue(text[k])]
\* json.dumps and json.loads of the list of sessions
JsonDumps(list) == [i \in 1..Len(list) |-> JsonDumpObject(list[i])]
JsonLoads(text) == [i \in 1..Len(text) |-> JsonLoadObject(text[i])]

\* ---- parse_duration ----------------------------------------------------------
MaxInputLen == 3      \* longest duration string tried

\* A string is a sequence of one-character strings.
Digits == {"0", "1", "3", "4", "5", "9"}
Alphabet == Digits \cup {"h", "m", "H", ".", "-", "a", "b", "c", " "}
Words == UNION {[1..n -> Alphabet] : n \in 0..MaxInputLen}
\* Fractions are halves (".5", ".50", ".0"): a double holds them and their
\* products exactly, so float arithmetic is exact arithmetic on these inputs.
ExactFraction(w) ==
  \A i \in 1..Len(w) :
    (w[i] \in Digits /\ \E j \in 1..(i - 1) : w[j] = ".")
      => (w[i] = "0" \/ (w[i] = "5" /\ w[i - 1] = "."))
DurationInputs == {w \in Words : ExactFraction(w)}

DigitVal(c) ==
  CASE c = "0" -> 0 [] c = "1" -> 1 [] c = "3" -> 3
    [] c = "4" -> 4 [] c = "5" -> 5 [] c = "9" -> 9

RECURSIVE LStrip(_)
LStrip(w) == IF w # <<>> /\ Head(w) = " " THEN LStrip(Tail(w)) ELSE w
RECURSIVE RStrip(_)
RStrip(w) ==
  IF w # <<>> /\ w[Len(w)] = " " THEN RStrip(SubSeq(w, 1, Len(w) - 1)) ELSE w
\* str.strip()
StrStrip(w) == RStrip(LStrip(w))
\* str.lower()
Lower(w) == [i \in 1..Len(w) |-> IF w[i] = "H" THEN "h" ELSE w[i]]
\* str.endswith(c)
EndsWith(w, c) == w # <<>> /\ w[Len(w)] = c
\* str.isdigit()
IsDigit(w) == w # <<>> /\ \A i \in 1..Len(w) : w[i] \in Digits
\* s[:-1]
ButLast(w) == SubSeq(w, 1, Len(w) - 1)

\* int(s) of a string of digits
RECURSIVE DecimalValue(_)
DecimalValue(w) ==
  IF w = <<>> THEN 0 ELSE 10 * DecimalValue(ButLast(w)) + DigitVal(w[Len(w)])

\* float(p): blanks around, an optional sign, digits with at most one point and
\* at least one digit; the value is (-)num/den
ParseFloat(p0) ==
  LET p == StrStrip(p0)
      neg == p # <<>> /\ Head(p) = "-"
      body == IF neg THEN Tail(p) ELSE p
      dots == {i \in 1..Len(body) : body[i] = "."}
      dot == IF dots = {} THEN Len(body) + 1 ELSE CHOOSE i \in dots : TRUE
      ip == SubSeq(body, 1, dot - 1)
      fp == SubSeq(body, dot + 1, Len(body))
      wellformed ==
        /\ Cardinality(dots) <= 1
        /\ \A i \in 1..Len(body) : body[i] \in Digits \cup {"."}
        /\ ip \o fp # <<>>
  IN  [ok |-> wellformed, neg |-> neg,
       num |-> IF wellformed THEN DecimalValue(ip \o fp) ELSE 0,
       den |-> IF wellformed THEN 10 ^ Len(fp) ELSE 1]

\* int(float(p) * k): the product truncated towards zero
IntOfProduct(f, k) ==
  LET q == (f.num * k) \div f.den IN IF f.neg THEN 0 - q ELSE q

Seconds(n) == [state |-> "ok", sec |-> n]
\* click.BadParameter, line 110
InvalidDuration == [state |-> "invalid", sec |-> 0]

\* a parser that takes a bare number for seconds
DigitsRule_Seconds(n) == n

\* line 105: a string of digits is a number of minutes
DigitsRule(n) == n * 60

\* parse_duration, lines 90-110
ParseDuration(input) ==
  LET s == Lower(StrStrip(input))
  IN  IF EndsWith(s, "h") /\ ParseFloat(ButLast(s)).ok
        THEN Seconds(IntOfProduct(ParseFloat(ButLast(s)), 3600))
      ELSE IF EndsWith(s, "m") /\ ParseFloat(ButLast(s)).ok
        THEN Seconds(IntOfProduct(ParseFloat(ButLast(s)), 60))
      ELSE IF IsDigit(s)
        THEN Seconds(DigitsRule(DecimalValue(s)))
      ELSE IF ParseFloat(s).ok
        THEN Seconds(IntOfProduct(ParseFloat(s), 1))
      ELSE InvalidDuration

\* ---- `start` ---------------------------------------------------------------
\* session_entry (lines 501-509); template, cmds and tmux are not varied
SessionEntry(o, ts) ==
  [template |-> "None", duration_seconds |-> o.dur, start_ts |-> ts,
   dnd |-> o.dnd, apps |-> IF o.apps THEN <<"app">> ELSE <<>>,
   cmds |-> <<>>, tmux_session |-> "None"]

\* lines 457-497: set_dnd(True), open_app_or_url per app, start notification
BeginEffects(o) ==
  Emit("cli", << <<o.dnd, "dnd_on">>, <<o.apps, "open">>,
                 <<o.notify, "notify_start">> >>)

\* lines 566-571: end notification, then set_dnd(False)
FinishEffects(o) ==
  Emit("cli", << <<o.notify, "notify_end">>, <<o.dnd, "dnd_off">> >>)

\* an interrupt handler that finishes the session like a completed one
InterruptEffects_AsFinish(o) == FinishEffects(o)

\* lines 558-563: the KeyboardInterrupt handler
InterruptEffects(o) ==
  Emit("cli", << <<o.dnd, "dnd_off">> >>)

\* where `start` goes when it reaches line 538
EnterCountdown(s, o) ==
  /\ cliPc' = [cliPc EXCEPT ![s] = "countdown"]
  /\ remaining' = [remaining EXCEPT ![s] = o.dur]

\* lines 411-509: resolve the options, run the begin effects, build the entry
StartWith(s, o) ==
  /\ cliPc[s] = "idle"
  /\ opt' = [opt EXCEPT ![s] = o]
  /\ dndState' = IF o.dnd THEN TRUE ELSE dndState
  /\ effects' = [effects EXCEPT ![s] = @ \o BeginEffects(o)]
  /\ entry' = [entry EXCEPT ![s] = SessionEntry(o, now)]
  /\ IF o.detach
       THEN /\ cliPc' = [cliPc EXCEPT ![s] = "handoff"]
            /\ UNCHANGED remaining
       ELSE EnterCountdown(s, o)
  /\ UNCHANGED <<auxVars, platform, now, marker, history, handoff, cliBuf, spawn, sleeps, slept,
                 monVars, cmdVars>>

\* `start` with any options; the sessions are started in the order of their numbers
Start(s) ==
  /\ \A t \in Sessions : t < s => cliPc[t] # "idle"
  /\ \E o \in Options : StartWith(s, o)

\* the templates of the config (DEFAULT_CONFIG, lines 31-32)
ConfigTemplates == {"deep-work"}
\* --template as given to `start`; "none" is the option left out
TemplateArgs == {"none", "deep-work", "missing"}
\* --duration as given to a `start` that may be refused
DurationArgs == {<<"a", "b", "c">>, <<"-">>, <<"1", "h">>}

\* lines 413-415: template_data is found, or no template was asked for
TemplateFound(t) == t = "none" \/ t \in ConfigTemplates

\* a `start` that enables DND before it looks at its arguments
RejectEffects_DndFirst(why) == << <<"cli", "dnd_on">> >>

\* lines 411-425: what `start` has done when it returns on a bad argument
RejectEffects(why) == <<>>

\* lines 413-417 and 420-425: the template is unknown or the duration does not
\* parse; `start` echoes the error and returns
StartRejected(s) ==
  /\ cliPc[s] = "idle"
  /\ \A t \in Sessions : s <= t
  /\ \E t \in TemplateArgs, d \in DurationArgs :
       /\ ~TemplateFound(t) \/ ParseDuration(d) = InvalidDuration
       /\ report' = IF ~TemplateFound(t) THEN "start: template not found"
                                         ELSE "start: invalid duration"
       /\ effects' = [effects EXCEPT ![s] = @ \o RejectEffects(report')]
  /\ cliPc' = [cliPc EXCEPT ![s] = "rejected"]
  /\ UNCHANGED <<auxVars, platform, now, dndState, marker, history, handoff, opt,
                 entry, remaining, cliBuf, spawn, sleeps, slept, monVars,
                 stopIssued>>

\* the design assumes at most one session at a time: a single `start`
StartExclusive(s) == (\A t \in Sessions : s <= t) /\ Start(s)

HandoffExists(ts) == \E f \in handoff : f[1] = ts
HandoffContent(ts) == (CHOOSE f \in handoff : f[1] = ts)[2]
WriteFile(ts, content) == {f \in handoff : f[1] # ts} \cup {<<ts, content>>}
RemoveFile(ts) == {f \in handoff : f[1] # ts}

\* lines 520-522: write pending_session_<start_ts>.json
WriteHandoff(s) ==
  /\ cliPc[s] = "handoff"
  /\ handoff' = WriteFile(entry[s].start_ts, JsonDumpObject(entry[s]))
  /\ cliPc' = [cliPc EXCEPT ![s] = "spawn"]
  /\ UNCHANGED <<auxVars, platform, now, dndState, marker, history, opt, entry, remaining,
                 cliBuf, spawn, sleeps, slept, monVars, cmdVars, effects>>

\* line 535-538: Popen raised; the handler echoes and control reaches line 538
SpawnFailed(s) ==
  /\ spawn' = [spawn EXCEPT ![s] = "failed"]
  /\ EnterCountdown(s, opt[s])
  /\ UNCHANGED monVars

\* line 528: the monitor process exists from here on
SpawnOk(s) ==
  /\ spawn' = [spawn EXCEPT ![s] = "ok"]
  /\ monPc' = [monPc EXCEPT ![s] = "spawned"]
  /\ cliPc' = [cliPc EXCEPT ![s] = "writepid"]
  /\ UNCHANGED <<remaining, monEntry, monBuf>>

\* lines 524-528 and 535-536
Spawn(s) ==
  /\ cliPc[s] = "spawn"
  /\ IF platform = "Windows"
       THEN /\ spawn' = [spawn EXCEPT ![s] = "unsupported"]
            /\ EnterCountdown(s, opt[s])
            /\ UNCHANGED monVars
       ELSE SpawnOk(s) \/ SpawnFailed(s)
  /\ UNCHANGED <<auxVars, platform, now, dndState, marker, history, handoff, opt, entry,
                 cliBuf, sleeps, slept, cmdVars, effects>>

\* a write_pid that leaves the marker file as it was
WritePid_Lost(pid) == marker

\* write_pid, lines 305-309: the marker file holds str(pid)
WritePid(pid) == pid

\* lines 529-534: write_pid(p.pid), then log the entry or return
CliWritePid(s) ==
  /\ cliPc[s] = "writepid"
  /\ marker' = WritePid(Pid(s))
  /\ IF opt[s].log
       THEN /\ entry' = [entry EXCEPT ![s] = SetKey(@, "detached_pid", Pid(s))]
            /\ cliPc' = [cliPc EXCEPT ![s] = "log_detach"]
       ELSE /\ cliPc' = [cliPc EXCEPT ![s] = "detached"]
            /\ UNCHANGED entry
  /\ UNCHANGED <<auxVars, platform, now, dndState, history, handoff, opt, remaining, cliBuf,
                 spawn, sleeps, slept, monVars, cmdVars, effects>>

\* a save_session_entry that adds the entry at the end of the list
Insert0_AtEnd(list, e) == list \o <<e>>

\* save_session_entry, line 83: s.insert(0, entry)
Insert0(list, e) == <<e>> \o list

\* lines 85 and 76: what load_sessions reads back once `list` was written
Stored(list) == JsonLoads(JsonDumps(list))
\* load_sessions, lines 72-78; `history` holds the file as load_sessions reads it
LoadSessions == history

\* save_session_entry, line 82: s = load_sessions()
CliLoad(s) ==
  /\ cliPc[s] \in {"log_detach", "log_finish"}
  /\ cliBuf' = [cliBuf EXCEPT ![s] = LoadSessions]
  /\ cliPc' = [cliPc EXCEPT ![s] = IF @ = "log_detach" THEN "write_detach"
                                                      ELSE "write_finish"]
  /\ UNCHANGED <<auxVars, platform, now, dndState, marker, history, handoff, opt, entry,
                 remaining, spawn, sleeps, slept, monVars, cmdVars, effects>>

\* save_session_entry, lines 83-85, then `return` (534) or line 577
CliWrite(s) ==
  /\ cliPc[s] \in {"write_detach", "write_finish"}
  /\ history' = Stored(Insert0(cliBuf[s], entry[s]))
  /\ effects' = [effects EXCEPT ![s] = Append(@, <<"cli", "append">>)]
  /\ cliBuf' = [cliBuf EXCEPT ![s] = <<>>]
  /\ cliPc' = [cliPc EXCEPT ![s] = IF @ = "write_detach" THEN "detached"
                                                        ELSE "completed"]
  /\ UNCHANGED <<auxVars, platform, now, dndState, marker, handoff, opt, entry, remaining,
                 spawn, sleeps, slept, monVars, cmdVars>>

\* a countdown that still takes the long tick at 60 seconds
Interval_From60(rem) == IF rem >= 60 THEN 10 ELSE 1

\* lines 544-547
Interval(rem) == IF rem > 60 THEN 10 ELSE 1

\* lines 542-557: one pass of the countdown loop
CountdownTick(s) ==
  /\ cliPc[s] = "countdown"
  /\ remaining[s] > 0
  /\ remaining' = [remaining EXCEPT ![s] = @ - Interval(@)]
  /\ sleeps' = [sleeps EXCEPT ![s] = @ + 1]
  /\ slept' = [slept EXCEPT ![s] = @ + Interval(remaining[s])]
  /\ UNCHANGED <<auxVars, platform, now, dndState, marker, history, handoff, opt, cliPc,
                 entry, cliBuf, spawn, monVars, cmdVars, effects>>

\* lines 558-563: KeyboardInterrupt inside the try block
Interrupt(s) ==
  /\ cliPc[s] = "countdown"
  /\ effects' = [effects EXCEPT ![s] = @ \o InterruptEffects(opt[s])]
  /\ dndState' = IF opt[s].dnd THEN FALSE ELSE dndState
  /\ cliPc' = [cliPc EXCEPT ![s] = "interrupted"]
  /\ UNCHANGED <<auxVars, platform, now, marker, history, handoff, opt, entry, remaining,
                 cliBuf, spawn, sleeps, slept, monVars, cmdVars>>

\* a finish that forgets to stamp the entry
StampEnd_Missing(e, t) == e

\* lines 574 and 653: entry["end_ts"] = int(time.time())
StampEnd(e, t) == SetKey(e, "end_ts", t)

\* lines 566-577 up to the call of save_session_entry
Finish(s) ==
  /\ cliPc[s] = "countdown"
  /\ remaining[s] <= 0
  /\ effects' = [effects EXCEPT ![s] = @ \o FinishEffects(opt[s])]
  /\ dndState' = IF opt[s].dnd THEN FALSE ELSE dndState
  /\ entry' = [entry EXCEPT ![s] = StampEnd(@, now)]
  /\ cliPc' = [cliPc EXCEPT ![s] = IF opt[s].log THEN "log_finish" ELSE "completed"]
  /\ UNCHANGED <<auxVars, platform, now, marker, history, handoff, opt, remaining, cliBuf,
                 spawn, sleeps, slept, monVars, cmdVars>>

\* ---- `_monitor` ------------------------------------------------------------
\* the argv of the monitor (line 515, 522): seconds and entry_file
MonSeconds(s) == opt[s].dur
MonFile(s) == entry[s].start_ts

\* lines 639-643: json.load of the entry file, {} when that raises
Readable(ts) == HandoffExists(ts) /\ Parsable(HandoffContent(ts))
ReadEntry(ts) ==
  IF Readable(ts) THEN JsonLoadObject(HandoffContent(ts)) ELSE EmptyEntry

\* a monitor without the except arm: the error of open or json.load ends it
AfterRead_Uncaught(ok) == IF ok THEN "writepid" ELSE "exited"

\* lines 639-645: where control goes after the read, whether or not it raised
AfterRead(ok) == "writepid"

MonRead(s) ==
  /\ monPc[s] = "spawned"
  /\ monEntry' = [monEntry EXCEPT ![s] = ReadEntry(MonFile(s))]
  /\ monPc' = [monPc EXCEPT ![s] = AfterRead(Readable(MonFile(s)))]
  /\ UNCHANGED <<auxVars, platform, now, dndState, marker, history, handoff, sessVars,
                 monBuf, cmdVars, effects>>

\* lines 645-646: write_pid(os.getpid())
MonWritePid(s) ==
  /\ monPc[s] = "writepid"
  /\ marker' = WritePid(Pid(s))
  /\ monPc' = [monPc EXCEPT ![s] = "sleeping"]
  /\ UNCHANGED <<auxVars, platform, now, dndState, history, handoff, sessVars, monEntry,
                 monBuf, cmdVars, effects>>

\* a monitor whose cleanup is not in a finally block: the error ends the process
AfterSleep_NoFinally(seconds) == IF seconds < 0 THEN "exiting" ELSE "finish"

\* lines 647-655: where control goes after time.sleep(seconds); a negative
\* argument raises ValueError and control passes to the finally block
AfterSleep(seconds) == IF seconds < 0 THEN "unlink" ELSE "finish"

\* line 648: time.sleep(seconds)
MonSleep(s) ==
  /\ monPc[s] = "sleeping"
  /\ monPc' = [monPc EXCEPT ![s] = AfterSleep(MonSeconds(s))]
  /\ UNCHANGED <<auxVars, platform, now, dndState, marker, history, handoff, sessVars,
                 monEntry, monBuf, cmdVars, effects>>

\* a monitor that restores DND before it notifies
MonFinishEffects_DndFirst(s, e) ==
  Emit("monitor", << <<GetFlag(e, "dnd"), "dnd_off">>, <<TRUE, "notify_end">> >>)

\* lines 650-652: the notification, then set_dnd(False) if entry.get("dnd")
MonFinishEffects(s, e) ==
  Emit("monitor", << <<TRUE, "notify_end">>, <<GetFlag(e, "dnd"), "dnd_off">> >>)

\* lines 650-654 up to load_sessions inside save_session_entry
MonFinish(s) ==
  /\ monPc[s] = "finish"
  /\ effects' = [effects EXCEPT ![s] = @ \o MonFinishEffects(s, monEntry[s])]
  /\ dndState' = IF GetFlag(monEntry[s], "dnd") THEN FALSE ELSE dndState
  /\ monEntry' = [monEntry EXCEPT ![s] = StampEnd(@, now)]
  /\ monBuf' = [monBuf EXCEPT ![s] = LoadSessions]
  /\ monPc' = [monPc EXCEPT ![s] = "write"]
  /\ UNCHANGED <<auxVars, platform, now, marker, history, handoff, sessVars, cmdVars>>

\* line 654: save_session_entry(entry), lines 83-85
MonWrite(s) ==
  /\ monPc[s] = "write"
  /\ history' = Stored(Insert0(monBuf[s], monEntry[s]))
  /\ effects' = [effects EXCEPT ![s] = Append(@, <<"monitor", "append">>)]
  /\ monBuf' = [monBuf EXCEPT ![s] = <<>>]
  /\ monPc' = [monPc EXCEPT ![s] = "unlink"]
  /\ UNCHANGED <<auxVars, platform, now, dndState, marker, handoff, sessVars, monEntry,
                 cmdVars>>

\* line 658: Path(entry_file).unlink(missing_ok=True)
MonUnlink(s) ==
  /\ monPc[s] = "unlink"
  /\ handoff' = RemoveFile(MonFile(s))
  /\ effects' = [effects EXCEPT ![s] = Append(@, <<"cleanup", "unlink">>)]
  /\ monPc' = [monPc EXCEPT ![s] = "clear"]
  /\ UNCHANGED <<auxVars, platform, now, dndState, marker, history, sessVars, monEntry,
                 monBuf, cmdVars>>

\* clear_pid, lines 322-327
ClearPid == NoPid

\* line 661: clear_pid()
MonClearPid(s) ==
  /\ monPc[s] = "clear"
  /\ marker' = ClearPid
  /\ effects' = [effects EXCEPT ![s] = Append(@, <<"cleanup", "clear_pid">>)]
  /\ monPc' = [monPc EXCEPT ![s] = "exiting"]
  /\ UNCHANGED <<auxVars, platform, now, dndState, history, handoff, sessVars, monEntry,
                 monBuf, cmdVars>>

\* the monitor process ends after its last statement
MonExit(s) ==
  /\ monPc[s] = "exiting"
  /\ monPc' = [monPc EXCEPT ![s] = "exited"]
  /\ UNCHANGED <<auxVars, platform, now, dndState, marker, history, handoff, sessVars,
                 monEntry, monBuf, cmdVars, effects>>

\* ---- `stop` and `status` -----------------------------------------------------
\* read_pid, lines 312-319
ReadPid == marker

\* a monitor that turns SIGTERM into an exception, so that its finally block runs
Terminate_Handled(p) == [monPc EXCEPT ![p] = "unlink"]

\* what SIGTERM does to the monitor: it has no handler, the process ends
Terminate(p) == [monPc EXCEPT ![p] = "killed"]

\* line 603, observed: the signal, and what the monitor was at when it arrived
Signalled(p) == [effects EXCEPT ![p] = Append(@, <<"stop", monPc[p]>>)]

\* a `stop` whose except arm does not clear the marker
StopMarkerAfter_KeptOnFailure(delivered) == IF delivered THEN ClearPid ELSE marker

\* the marker after the try arm (line 606) and after the except arm (line 609)
StopMarkerAfter(delivered) == ClearPid

\* lines 599-609
Stop ==
  /\ stopIssued' = TRUE
  /\ IF ReadPid = NoPid
       THEN /\ report' = "stop: no session"
            /\ UNCHANGED <<marker, monPc, effects>>
       ELSE /\ monPc' = IF ProcessExists(ReadPid) THEN Terminate(ReadPid) ELSE monPc
            /\ effects' = IF ProcessExists(ReadPid) THEN Signalled(ReadPid) ELSE effects
            /\ report' = IF ProcessExists(ReadPid) THEN "stop: signalled"
                                                   ELSE "stop: failed"
            /\ marker' = StopMarkerAfter(ProcessExists(ReadPid))
  /\ UNCHANGED <<auxVars, platform, now, dndState, history, handoff, sessVars, monEntry,
                 monBuf>>

\* a `status` that reports a stale marker but leaves it
StatusMarkerAfter_NoHeal(alive) == marker

\* the marker after `status` found the process of pid alive or not (line 593)
StatusMarkerAfter(alive) == IF alive THEN marker ELSE ClearPid

\* lines 583-593
Status ==
  /\ IF ReadPid = NoPid
       THEN /\ report' = "status: no session"
            /\ UNCHANGED marker
       ELSE /\ report' = IF ProcessExists(ReadPid) THEN "status: running"
                                                   ELSE "status: stale"
            /\ marker' = StatusMarkerAfter(ProcessExists(ReadPid))
  /\ UNCHANGED <<auxVars, platform, now, dndState, history, handoff, sessVars, monVars,
                 stopIssued, effects>>

\* ---- the system ------------------------------------------------------------
CliStep(s) ==
  \/ StartExclusive(s)
  \/ StartRejected(s)
  \/ WriteHandoff(s)
  \/ Spawn(s)
  \/ CliWritePid(s)
  \/ CliLoad(s)
  \/ CliWrite(s)
  \/ CountdownTick(s)
  \/ Interrupt(s)
  \/ Finish(s)

MonStep(s) ==
  \/ MonRead(s)
  \/ MonWritePid(s)
  \/ MonSleep(s)
  \/ MonFinish(s)
  \/ MonWrite(s)
  \/ MonUnlink(s)
  \/ MonClearPid(s)
  \/ MonExit(s)

Next ==
  \/ Tick
  \/ \E s \in Sessions : CliStep(s)
  \/ \E s \in Sessions : MonStep(s)
  \/ Stop
  \/ Status

Spec == Init /\ [][Next]_vars

\* one call of parse_duration on a string
ParseInit ==
  /\ platform = "Linux"
  /\ Fresh
  /\ durInput \in DurationInputs
  /\ parsed = NotParsed
  /\ written = <<>>

Parse ==
  /\ parsed.state = "pending"
  /\ parsed' = ParseDuration(durInput)
  /\ UNCHANGED <<durInput, written, platform, now, dndState, marker, history,
                 handoff, sessVars, monVars, cmdVars, effects>>

SpecParse == ParseInit /\ [][Parse]_vars

\* ---- the history file alone ----------------------------------------------------
MaxRecords == 3       \* number of save_session_entry calls

SampleOptions ==
  {[detach |-> FALSE, notify |-> TRUE, log |-> TRUE, dnd |-> d, apps |-> d, dur |-> 0] :
     d \in BOOLEAN}
\* entries as `start` and `_monitor` save them: without and with end_ts, with
\* detached_pid, and the entry of a monitor that could not read its file
SampleEntries ==
  {SessionEntry(o, 0) : o \in SampleOptions}
    \cup {StampEnd(SessionEntry(o, 0), 1) : o \in SampleOptions}
    \cup {SetKey(SessionEntry(o, 1), "detached_pid", 1) : o \in SampleOptions}
    \cup {StampEnd(EmptyEntry, 1)}

HistoryInit ==
  /\ platform = "Linux"
  /\ Fresh
  /\ durInput = <<>>
  /\ parsed = NotParsed
  /\ written = <<>>

\* save_session_entry(e), lines 81-87, run from beginning to end
SaveEntry(e) ==
  /\ Len(written) < MaxRecords
  /\ history' = Stored(Insert0(LoadSessions, e))
  /\ written' = Append(written, e)
  /\ UNCHANGED <<durInput, parsed, platform, now, dndState, marker, handoff,
                 sessVars, monVars, cmdVars, effects>>

SpecHistory == HistoryInit /\ [][\E e \in SampleEntries : SaveEntry(e)]_vars

\* ---- the foreground countdown alone ----------------------------------------------
MaxCount == 75        \* longest duration of the countdown, in seconds

\* `start --duration d` in the foreground, with nothing else enabled
CountOption(d) == [detach |-> FALSE, notify |-> FALSE, log |-> FALSE, dnd |-> FALSE,
                   apps |-> FALSE, dur |-> d]

CountdownInit ==
  /\ platform = "Linux"
  /\ Fresh
  /\ durInput = <<>>
  /\ parsed = NotParsed
  /\ written = <<>>

StartCountdown == \E d \in 0..MaxCount : StartWith(1, CountOption(d))

CountdownNext == StartCountdown \/ CountdownTick(1) \/ Finish(1)

\* the CLI is one sequential process that nothing stops: it keeps taking steps
SpecCountdown ==
  /\ CountdownInit
  /\ [][CountdownNext]_vars
  /\ WF_vars(CountdownNext)

\* ---- a handoff file that is lost or damaged ------------------------------------
\* somebody else removes a handoff file, or overwrites it with text that is not JSON
DamageHandoff ==
  /\ \E f \in handoff :
       \/ handoff' = RemoveFile(f[1])
       \/ f[2] # NotJson /\ handoff' = WriteFile(f[1], NotJson)
  /\ UNCHANGED <<auxVars, platform, now, dndState, marker, history, sessVars, monVars,
                 cmdVars, effects>>

DamageInit ==
  /\ platform = "Linux"
  /\ Fresh
  /\ durInput = <<>>
  /\ parsed = NotParsed
  /\ written = <<>>

DamageNext ==
  \/ \E s \in Sessions : CliStep(s) \/ MonStep(s)
  \/ Tick
  \/ DamageHandoff

SpecDamage == DamageInit /\ [][DamageNext]_vars

\* ---- two detached sessions, one after the other ----------------------------------
\* `start --detach --duration d` with nothing else enabled
DetachOption(d) == [detach |-> TRUE, notify |-> FALSE, log |-> FALSE, dnd |-> FALSE,
                    apps |-> FALSE, dur |-> d]

OverlapInit ==
  /\ platform = "Linux"
  /\ Fresh
  /\ durInput = <<>>
  /\ parsed = NotParsed
  /\ written = <<>>

StartFirst == \E d \in 0..MaxDuration : StartWith(1, DetachOption(d))

\* the second `start --detach` is typed after the first one returned, while the
\* monitor of the first sleeps
StartSecond ==
  /\ cliPc[1] = "detached"
  /\ monPc[1] = "sleeping"
  /\ \E d \in 0..MaxDuration : StartWith(2, DetachOption(d))

OverlapNext ==
  \/ StartFirst
  \/ StartSecond
  \/ \E s \in Sessions : WriteHandoff(s) \/ Spawn(s) \/ CliWritePid(s) \/ MonStep(s)
  \/ Tick

SpecOverlap == OverlapInit /\ [][OverlapNext]_vars

\* ---- properties --------------------------------------------------------------
Count(seq, e) == Cardinality({i \in 1..Len(seq) : seq[i] = e})
\* how often an effect happened in session s, whoever performed it
HowOften(s, what) == Cardinality({i \in 1..Len(effects[s]) : effects[s][i][2] = what})
Did(s, actor, what) == Count(effects[s], <<actor, what>>) > 0

\* the session ran in the foreground (also as the fallback of a detach) to the end
ForegroundCompleted(s) == cliPc[s] = "completed"
\* `start --detach` returned and the monitor slept its duration and ran to its exit
DetachedExpired(s) ==
  /\ spawn[s] = "ok"
  /\ cliPc[s] = "detached"
  /\ monPc[s] = "exited"
  /\ opt[s].dur >= 0
EndedByExpiry(s) == ForegroundCompleted(s) \/ DetachedExpired(s)

\* C1: a session that ended by expiry of its duration, foreground or detached,
\* has had each end-of-session effect at most once, and exactly once when the
\* effect is enabled; with logging enabled exactly one record was appended.
C1_FinishExactlyOnce ==
  \A s \in Sessions : EndedByExpiry(s) =>
    /\ HowOften(s, "notify_end") <= 1
    /\ HowOften(s, "dnd_off") <= 1
    /\ HowOften(s, "append") <= 1
    /\ opt[s].notify => HowOften(s, "notify_end") = 1
    /\ opt[s].dnd => HowOften(s, "dnd_off") = 1
    /\ opt[s].log => HowOften(s, "append") = 1

\* C2: the finishing effects of the detached monitor are those of the foreground
\* path for the same options: end notification iff --notify, DND disabled iff it
\* was enabled, a record appended iff --log.
C2_MonitorFinishAsForeground ==
  \A s \in Sessions : DetachedExpired(s) =>
    /\ Did(s, "monitor", "notify_end") <=> opt[s].notify
    /\ Did(s, "monitor", "dnd_off") <=> opt[s].dnd
    /\ Did(s, "monitor", "append") <=> opt[s].log

\* C3: after a failed launch of the monitor the `start` process runs no
\* countdown and performs no finishing effect itself.
C3_NoForegroundFallback ==
  \A s \in Sessions : spawn[s] = "failed" =>
    /\ cliPc[s] \notin {"countdown", "log_finish", "write_finish", "completed",
                        "interrupted"}
    /\ sleeps[s] = 0
    /\ ~Did(s, "cli", "notify_end")
    /\ ~Did(s, "cli", "dnd_off")
    /\ ~Did(s, "cli", "append")

\* C4: a `stop` invoked while a marker is present leaves no marker, whether the
\* signal reached a live monitor or its delivery failed.
C4_StopClearsMarker ==
  [][(Stop /\ marker # NoPid) => marker' = NoPid]_vars

\* a `stop` found a marker whose process was gone, and the marker is gone too
C4_Witness == report = "stop: failed" /\ marker = NoPid

\* C5: `status` without a marker reports no session and changes nothing; with a
\* marker of a live process it reports running and leaves the marker; with a
\* marker of a dead process it reports stale and removes the marker.
C5_StatusCases ==
  [][Status =>
       /\ marker = NoPid =>
            /\ report' = "status: no session"
            /\ UNCHANGED <<marker, history, handoff, dndState, monPc>>
       /\ (marker # NoPid /\ ProcessExists(marker)) =>
            /\ report' = "status: running"
            /\ UNCHANGED <<marker, history, handoff, dndState, monPc>>
       /\ (marker # NoPid /\ ~ProcessExists(marker)) =>
            /\ report' = "status: stale"
            /\ marker' = NoPid]_vars

\* a `status` found a stale marker and removed it
C5_Witness == report = "status: stale" /\ marker = NoPid /\ ~stopIssued

\* the monitor is alive and has not yet reached clear_pid of its finally block
BeforeOwnClear(s) ==
  monPc[s] \in {"spawned", "writepid", "sleeping", "finish", "write", "unlink",
                "clear"}

\* C6 as stated: after `start --detach` returned, while the monitor is alive and
\* no stop was issued, the marker holds the monitor's pid.
C6_MarkerWhileAlive ==
  \A s \in Sessions :
    (cliPc[s] = "detached" /\ MonitorAlive(s) /\ ~stopIssued) => marker = Pid(s)

\* C6 amended: after `start --detach` returned, while the monitor is alive and
\* has not yet cleared the marker itself, and no stop was issued, the marker
\* holds the monitor's pid.
C6_MarkerUntilOwnClear ==
  \A s \in Sessions :
    (cliPc[s] = "detached" /\ BeforeOwnClear(s) /\ ~stopIssued) => marker = Pid(s)

\* `start --detach` has returned, the monitor sleeps and `status` saw it running
C6_Witness ==
  \E s \in Sessions :
    /\ cliPc[s] = "detached"
    /\ monPc[s] = "sleeping"
    /\ ~stopIssued
    /\ marker = Pid(s)
    /\ report = "status: running"

\* C7: once the monitor has exited naturally and `start --detach` has returned,
\* the marker is absent.
C7_NoMarkerAfterExit ==
  \A s \in Sessions :
    DetachedExpired(s) => marker = NoPid

\* C8: an interrupted foreground countdown appends nothing, sends no end
\* notification, and has disabled DND if the session had enabled it.
C8_InterruptCleansUp ==
  \A s \in Sessions : cliPc[s] = "interrupted" =>
    /\ HowOften(s, "append") = 0
    /\ HowOften(s, "notify_end") = 0
    /\ history = <<>>
    /\ opt[s].dnd =>
         /\ effects[s][Len(effects[s])] = <<"cli", "dnd_off">>
         /\ dndState = FALSE

\* a session with DND and logging was interrupted while time remained
C8_Witness ==
  \E s \in Sessions :
    /\ cliPc[s] = "interrupted"
    /\ opt[s].dnd /\ opt[s].log /\ opt[s].notify
    /\ remaining[s] > 0

\* C9: a foreground session with logging that ran to its end has appended
\* exactly one record, which has end_ts >= start_ts; with duration 0 the
\* countdown slept not once.
C9_ForegroundLogsOnce ==
  \A s \in Sessions : (ForegroundCompleted(s) /\ opt[s].log) =>
    /\ HowOften(s, "append") = 1
    /\ Len(history) = 1
    /\ HasKey(history[1], "end_ts")
    /\ history[1].end_ts >= history[1].start_ts
    /\ history[1].start_ts = entry[s].start_ts
    /\ opt[s].dur = 0 => sleeps[s] = 0

\* a foreground session of duration 0 with logging has completed
C9_Witness ==
  \E s \in Sessions :
    /\ ForegroundCompleted(s)
    /\ ~opt[s].detach /\ opt[s].log /\ opt[s].dur = 0
    /\ Len(history) = 1

Rank(what) ==
  CASE what = "dnd_on" -> 1
    [] what = "open" -> 2
    [] what = "notify_start" -> 3
    [] what = "notify_end" -> 4
    [] what = "dnd_off" -> 5
    [] what = "append" -> 6

\* the effects of one process of session s, in the order they happened
EffectsOf(s, actor) == SelectSeq(effects[s], LAMBDA e : e[1] = actor)
\* the finishing effects among them
IsFinish(what) == what \in {"notify_end", "dnd_off", "append"}

\* C10: in every process of a session the begin effects happen in the order
\* DND-enable, app opening, start notification, and the finish effects in the
\* order end notification, DND-disable, history append.
C10_EffectOrder ==
  \A s \in Sessions : \A actor \in {"cli", "monitor"} :
    LET es == EffectsOf(s, actor)
    IN  \A i, j \in 1..Len(es) :
          (i < j /\ (IsFinish(es[i][2]) <=> IsFinish(es[j][2])))
            => Rank(es[i][2]) < Rank(es[j][2])

\* a detached session with all begin effects whose monitor ran all finish effects
C10_Witness ==
  \E s \in Sessions :
    /\ EffectsOf(s, "cli") = << <<"cli", "dnd_on">>, <<"cli", "open">>,
                                <<"cli", "notify_start">> >>
    /\ EffectsOf(s, "monitor") = << <<"monitor", "notify_end">>,
                                    <<"monitor", "dnd_off">>,
                                    <<"monitor", "append">> >>

\* C11: a monitor that leaves Sleeping or Finishing without being killed, by
\* expiry or by an error, deletes its handoff file and then clears the marker,
\* in that order, before it terminates.
C11_CleanupInOrder ==
  /\ [](\A s \in Sessions :
          /\ monPc[s] = "clear" =>
               /\ EffectsOf(s, "cleanup") = << <<"cleanup", "unlink">> >>
               /\ ~HandoffExists(MonFile(s))
          /\ monPc[s] \in {"exiting", "exited"} =>
               EffectsOf(s, "cleanup") = << <<"cleanup", "unlink">>,
                                            <<"cleanup", "clear_pid">> >>)
  /\ [][\A s \in Sessions :
          (monPc[s] = "clear" /\ monPc'[s] # "clear" /\ monPc'[s] # "killed") =>
            (marker' = NoPid /\ ~HandoffExists(MonFile(s)))]_vars

\* a monitor whose sleep raised an error has cleaned up and exited
C11_Witness ==
  \E s \in Sessions :
    /\ monPc[s] = "exited"
    /\ opt[s].dur < 0
    /\ ~HandoffExists(MonFile(s))
    /\ EffectsOf(s, "cleanup") = << <<"cleanup", "unlink">>, <<"cleanup", "clear_pid">> >>

ParsedAs(input, n) == durInput = input => parsed = Seconds(n)

\* C13 as stated: parse_duration maps "90m", "1h", "30" and "45" to 5400, 3600,
\* 1800 and 45 seconds and fails on "abc".
C13_Examples ==
  parsed.state # "pending" =>
    /\ ParsedAs(<<"9", "0", "m">>, 5400)
    /\ ParsedAs(<<"1", "h">>, 3600)
    /\ ParsedAs(<<"3", "0">>, 1800)
    /\ ParsedAs(<<"4", "5">>, 45)
    /\ durInput = <<"a", "b", "c">> => parsed = InvalidDuration

\* C13 amended: parse_duration maps "90m", "1h", "30" and "45" to 5400, 3600,
\* 1800 and 2700 seconds (a bare number is a number of minutes) and fails on
\* "abc".
C13_ExamplesMinutes ==
  parsed.state # "pending" =>
    /\ ParsedAs(<<"9", "0", "m">>, 5400)
    /\ ParsedAs(<<"1", "h">>, 3600)
    /\ ParsedAs(<<"3", "0">>, 1800)
    /\ ParsedAs(<<"4", "5">>, 2700)
    /\ durInput = <<"a", "b", "c">> => parsed = InvalidDuration

\* "45" has been parsed as 45 minutes
C13_Witness == durInput = <<"4", "5">> /\ parsed = Seconds(2700)

\* C14: parse_duration fails or returns a strictly positive number of seconds.
C14_PositiveOrInvalid ==
  parsed.state = "ok" => parsed.sec > 0

\* C12: a `start` with an unknown template or an unparsable duration returns
\* having changed no DND state, opened no app, sent no notification, written no
\* handoff file, left the marker alone and appended nothing to the history.
C12_RejectedStartDoesNothing ==
  \A s \in Sessions : cliPc[s] = "rejected" =>
    /\ effects[s] = <<>>
    /\ dndState = FALSE
    /\ handoff = {}
    /\ marker = NoPid
    /\ history = <<>>
    /\ spawn[s] = "none" /\ monPc[s] = "none"

\* a `start` was refused for its template
C12_Witness ==
  \E s \in Sessions : cliPc[s] = "rejected" /\ report = "start: template not found"

\* C15: after N calls of save_session_entry on an empty store, load_sessions
\* returns exactly those N entries, newest first, every field unchanged and
\* end_ts absent where it was absent.
C15_RoundTrip ==
  /\ Len(LoadSessions) = Len(written)
  /\ \A i \in 1..Len(written) :
       LET got == LoadSessions[Len(written) + 1 - i]
       IN  /\ got = written[i]
           /\ HasKey(got, "end_ts") <=> HasKey(written[i], "end_ts")

\* two entries were saved, the first without end_ts, the second with it
C15_Witness ==
  /\ Len(written) >= 2
  /\ ~HasKey(written[1], "end_ts") /\ HasKey(written[2], "end_ts")
  /\ ~HasKey(LoadSessions[Len(written)], "end_ts")

\* the signal of `stop` reached the monitor of s while it slept
StoppedInSleep(s) == Did(s, "stop", "sleeping")

\* C16: a monitor that `stop` signals while it sleeps ends without finishing and
\* without cleanup: no end notification, DND left as the session set it, no
\* record with end_ts, the handoff file still there; the marker alone is gone,
\* removed by `stop` in the same step.
C16_StopSkipsCleanup ==
  /\ [](\A s \in Sessions : StoppedInSleep(s) =>
          /\ monPc[s] = "killed"
          /\ ~Did(s, "monitor", "notify_end")
          /\ ~Did(s, "monitor", "dnd_off")
          /\ ~Did(s, "monitor", "append")
          /\ ~Did(s, "cleanup", "unlink")
          /\ ~Did(s, "cleanup", "clear_pid")
          /\ dndState = opt[s].dnd
          /\ \A i \in 1..Len(history) : ~HasKey(history[i], "end_ts")
          /\ HandoffExists(MonFile(s)))
  /\ [][(Stop /\ marker # NoPid /\ monPc[marker] = "sleeping") =>
          /\ marker' = NoPid
          /\ UNCHANGED <<dndState, history, handoff>>]_vars

\* `stop` ended the sleeping monitor of a session that had enabled DND
C16_Witness ==
  \E s \in Sessions :
    /\ StoppedInSleep(s)
    /\ opt[s].dnd /\ dndState
    /\ opt[s].log /\ opt[s].notify
    /\ marker = NoPid
    /\ report = "stop: signalled"

\* C17: for every duration >= 0 the foreground countdown ends; a pass of its
\* loop sleeps 10 seconds exactly when more than 60 remain and 1 second
\* otherwise; the remaining time never goes below 0; and the sleeps add up to
\* the duration.
C17_Countdown ==
  /\ [](cliPc[1] \in {"countdown", "completed"} =>
          /\ remaining[1] >= 0
          /\ slept[1] + remaining[1] = opt[1].dur
          /\ cliPc[1] = "completed" => slept[1] = opt[1].dur)
  /\ [][CountdownTick(1) =>
          /\ slept'[1] - slept[1] = 10 <=> remaining[1] > 60
          /\ slept'[1] - slept[1] = 1 <=> remaining[1] <= 60]_vars
  /\ <>(cliPc[1] = "completed")

\* a countdown of more than 60 seconds ended after ticks of both lengths
C17_Witness ==
  /\ cliPc[1] = "completed"
  /\ opt[1].dur > 60
  /\ slept[1] = opt[1].dur
  /\ sleeps[1] < slept[1] /\ sleeps[1] > slept[1] \div 10

\* the monitor of s ran to its exit on a plan it could not read
ExpiredWithoutPlan(s) ==
  /\ monPc[s] = "exited"
  /\ MonSeconds(s) >= 0
  /\ ~HasKey(monEntry[s], "start_ts")

C19_SecondMarkerKept ==
  /\ []((cliPc[2] = "detached" /\ monPc[2] = "sleeping" /\ ~stopIssued) =>
          marker = Pid(2))
  /\ [][(MonClearPid(1) /\ marker = Pid(2)) => marker' = Pid(2)]_vars

\* C20: within one detached session the history file only grows: every record
\* it holds is still in it after any step, also when the CLI's load-insert-write
\* of the start record overlaps with the monitor's load-insert-write of the
\* finish record.
C20_HistoryAppendOnly ==
  [][\A i \in 1..Len(history) : \E j \in 1..Len(history') : history'[j] = history[i]]_vars

\* the handoff file named ts is that of a detach of s which is in flight: the
\* CLI is about to spawn the monitor, or the monitor is alive
InFlight(s, ts) ==
  /\ HasKey(entry[s], "start_ts")
  /\ MonFile(s) = ts
  /\ cliPc[s] = "spawn" \/ MonitorAlive(s)

\* C21: as long as no monitor was killed, every handoff file on disk belongs to
\* a monitor that is alive or is just being spawned; a `start --detach` whose
\* spawn failed leaves none behind.
C21_HandoffOnlyInFlight ==
  (\A s \in Sessions : monPc[s] # "killed") =>
    /\ \A f \in handoff : \E s \in Sessions : InFlight(s, f[1])
    /\ \A s \in Sessions :
         spawn[s] \in {"failed", "unsupported"} => ~HandoffExists(MonFile(s))
====
